---------------------------- MODULE Spec2Model ----------------------------
(***************************************************************************)
(* A model of the tax calculation library of finance-app-scripts:          *)
(* src/Code.js (the bracket tables, the validators, the progressive and    *)
(* the preferential evaluator, the surtaxes and the child tax credit) and  *)
(* src/unnamed/part_000 (the standalone getFederalIncomeTax and            *)
(* getNYIncomeTax).  src/Code.js holds the library twice: lines 1-627 are   *)
(* the current version, modelled here, and lines 628-932 an earlier one    *)
(* without the preferential tax, the NIIT and the child tax credit.        *)
(*                                                                         *)
(* One call of a public entry point is one run of the state machine: Call  *)
(* picks the entry point and its arguments, and every later action is one  *)
(* step of the entry point's code (a validator, a table lookup, one loop   *)
(* iteration, the final arithmetic).                                       *)
(*                                                                         *)
(* JavaScript values.  A value is a record [k, hi, lo]:                    *)
(*   k = "num"     the finite number hi + lo/10000 (0 <= lo < 10000)       *)
(*   k = "nan"     NaN                                                     *)
(*   k = "inf"     +Infinity          k = "ninf"   -Infinity               *)
(*   k = "str"     a string that is no numeral (ToNumber gives NaN)        *)
(*   k = "numstr"  the string holding the decimal numeral of hi            *)
(* Amounts handed to an entry point are whole currency units (lo = 0);     *)
(* rates are held in ten-thousandths (0.0525 is 525), so that every        *)
(* product amount * rate is exact in ten-thousandths of a unit.  The       *)
(* arithmetic is exact; binary floating point rounding is not modelled.    *)
(***************************************************************************)
EXTENDS Integers, Sequences, FiniteSets, TLC

(***************************************************************************)
(* Bounds of the model.                                                    *)
(***************************************************************************)
\* amounts are drawn at every threshold t and at t - Delta .. t + Delta
Delta == 1
\* numberOfChildren is drawn from -1 .. MaxChildren
MaxChildren == 3

(***************************************************************************)
(* JavaScript numbers and the operations the code applies to them.         *)
(***************************************************************************)
Num(h) == [k |-> "num", hi |-> h, lo |-> 0]
NaN == [k |-> "nan", hi |-> 0, lo |-> 0]
PosInf == [k |-> "inf", hi |-> 0, lo |-> 0]
NegInf == [k |-> "ninf", hi |-> 0, lo |-> 0]
Str == [k |-> "str", hi |-> 0, lo |-> 0]
NumStr(h) == [k |-> "numstr", hi |-> h, lo |-> 0]
Zero == Num(0)

\* typeof v === 'number'
TypeofNumber(v) == v.k \in {"num", "nan", "inf", "ninf"}

\* ToNumber, the coercion every arithmetic operator and Math function applies
ToNumber(v) ==
  IF v.k = "str" THEN NaN
  ELSE IF v.k = "numstr" THEN Num(v.hi)
  ELSE v

\* a < b on numbers (false whenever an operand is NaN)
LtNum(a, b) ==
  /\ a.k # "nan"
  /\ b.k # "nan"
  /\ CASE a.k = "ninf" -> b.k # "ninf"
       [] a.k = "inf" -> FALSE
       [] OTHER -> \/ b.k = "inf"
                   \/ /\ b.k = "num"
                      /\ \/ a.hi < b.hi
                         \/ (a.hi = b.hi /\ a.lo < b.lo)

\* the relational operators of the language, after coercion
JsLt(a, b) == LtNum(ToNumber(a), ToNumber(b))
JsLe(a, b) ==
  LET x == ToNumber(a)
      y == ToNumber(b)
  IN  x.k # "nan" /\ y.k # "nan" /\ ~LtNum(y, x)

MathMin(a, b) ==
  LET x == ToNumber(a)
      y == ToNumber(b)
  IN  IF x.k = "nan" \/ y.k = "nan" THEN NaN
      ELSE IF LtNum(y, x) THEN y ELSE x

MathMax(a, b) ==
  LET x == ToNumber(a)
      y == ToNumber(b)
  IN  IF x.k = "nan" \/ y.k = "nan" THEN NaN
      ELSE IF LtNum(x, y) THEN y ELSE x

\* hi + lo/10000 with lo brought back into 0 .. 9999
Norm(h, l) == [k |-> "num", hi |-> h + (l \div 10000), lo |-> l % 10000]

JsAdd(a, b) ==
  LET x == ToNumber(a)
      y == ToNumber(b)
  IN  CASE x.k = "nan" \/ y.k = "nan" -> NaN
        [] x.k = "inf" -> IF y.k = "ninf" THEN NaN ELSE PosInf
        [] x.k = "ninf" -> IF y.k = "inf" THEN NaN ELSE NegInf
        [] y.k = "inf" -> PosInf
        [] y.k = "ninf" -> NegInf
        [] OTHER -> Norm(x.hi + y.hi, x.lo + y.lo)

JsSub(a, b) ==
  LET x == ToNumber(a)
      y == ToNumber(b)
  IN  CASE x.k = "nan" \/ y.k = "nan" -> NaN
        [] x.k = "inf" -> IF y.k = "inf" THEN NaN ELSE PosInf
        [] x.k = "ninf" -> IF y.k = "ninf" THEN NaN ELSE NegInf
        [] y.k = "inf" -> NegInf
        [] y.k = "ninf" -> PosInf
        [] OTHER -> Norm(x.hi - y.hi, x.lo - y.lo)

\* a * (r/10000) for a whole amount a and a rate of r ten-thousandths, r >= 0
JsMulRate(a, r) ==
  LET x == ToNumber(a)
  IN  CASE x.k = "nan" -> NaN
        [] x.k \in {"inf", "ninf"} -> IF r = 0 THEN NaN ELSE x
        [] OTHER ->
             LET q == x.hi \div 10000
                 m == (x.hi % 10000) * r
             IN  Norm(q * r, m)

\* a * n for whole numbers a and n >= 0
JsMulInt(a, n) ==
  LET x == ToNumber(a)
  IN  CASE x.k = "nan" -> NaN
        [] x.k \in {"inf", "ninf"} -> IF n = 0 THEN NaN ELSE x
        [] OTHER -> Num(x.hi * n)

\* Math.ceil(a / d) for a whole amount a and a whole divisor d > 0
JsCeilDiv(a, d) ==
  LET x == ToNumber(a)
  IN  IF x.k = "num" THEN Num(0 - ((0 - x.hi) \div d)) ELSE x

\* Number.isInteger(v)
IsInteger(v) == v.k = "num" /\ v.lo = 0

\* F(v), with v evaluated before F is: the language evaluates its operands before
\* it applies an operator, and this keeps the evaluation of a loop as shallow as
\* the loop's own
WithValue(v, F(_)) == CHOOSE r \in {F(x) : x \in {v}} : TRUE


(***************************************************************************)
(* TAX_CONFIG and the tables of src/Code.js.  A bracket is                 *)
(* <<threshold, rate in ten-thousandths>>.                                 *)
(***************************************************************************)
MAX_INCOME == 100000000
SUPPORTED_YEARS == {2023, 2024, 2025, 2026}
JURISDICTIONS == {"federal", "ny", "ca"}
CA_MENTAL_HEALTH_TAX == [RATE |-> 100, THRESHOLD |-> 1000000]
NIIT == [RATE |-> 380, THRESHOLD |-> 250000]
CHILD_TAX_CREDIT ==
  [PHASE_OUT_THRESHOLD |-> 400000, PHASE_OUT_RATE |-> 50, PHASE_OUT_INCREMENT |-> 1000]

NY_BRACKETS ==
  << <<17150, 400>>, <<23600, 450>>, <<27900, 525>>, <<161550, 550>>,
     <<323200, 600>>, <<2155350, 685>>, <<5000000, 965>>, <<25000000, 1030>>,
     <<MAX_INCOME, 1090>> >>

TAX_BRACKETS ==
  [federal |->
     (2023 :> << <<22000, 1000>>, <<89450, 1200>>, <<190750, 2200>>, <<364200, 2400>>,
                 <<462500, 3200>>, <<693750, 3500>>, <<MAX_INCOME, 3700>> >>
      @@ 2024 :> << <<23200, 1000>>, <<94300, 1200>>, <<201050, 2200>>, <<383900, 2400>>,
                    <<487450, 3200>>, <<731200, 3500>>, <<MAX_INCOME, 3700>> >>
      @@ 2025 :> << <<23850, 1000>>, <<96950, 1200>>, <<206700, 2200>>, <<394600, 2400>>,
                    <<501050, 3200>>, <<751600, 3500>>, <<MAX_INCOME, 3700>> >>
      @@ 2026 :> << <<24800, 1000>>, <<100800, 1200>>, <<211400, 2200>>, <<403550, 2400>>,
                    <<512450, 3200>>, <<768700, 3500>>, <<MAX_INCOME, 3700>> >>),
   ny |->
     (2023 :> NY_BRACKETS @@ 2024 :> NY_BRACKETS @@ 2025 :> NY_BRACKETS
      @@ 2026 :> NY_BRACKETS),
   ca |->
     (2023 :> << <<20924, 100>>, <<49564, 200>>, <<78252, 400>>, <<108616, 600>>,
                 <<137284, 800>>, <<701308, 930>>, <<841572, 1030>>, <<1402620, 1130>>,
                 <<MAX_INCOME, 1230>> >>
      @@ 2024 :> << <<21512, 100>>, <<50998, 200>>, <<80490, 400>>, <<111732, 600>>,
                    <<141212, 800>>, <<721318, 930>>, <<865574, 1030>>, <<1442628, 1130>>,
                    <<MAX_INCOME, 1230>> >>
      @@ 2025 :> << <<22222, 100>>, <<52682, 200>>, <<83146, 400>>, <<115418, 600>>,
                    <<145912, 800>>, <<745121, 930>>, <<894338, 1030>>, <<1490235, 1130>>,
                    <<MAX_INCOME, 1230>> >>
      @@ 2026 :> << <<22956, 100>>, <<54421, 200>>, <<85890, 400>>, <<119307, 600>>,
                    <<150657, 800>>, <<769900, 930>>, <<924503, 1030>>, <<1539143, 1130>>,
                    <<MAX_INCOME, 1230>> >>)]

CHILD_TAX_CREDIT_AMOUNTS ==
  (2023 :> [creditPerChild |-> 2000, refundableAmount |-> 1600]
   @@ 2024 :> [creditPerChild |-> 2000, refundableAmount |-> 1700]
   @@ 2025 :> [creditPerChild |-> 2200, refundableAmount |-> 1700]
   @@ 2026 :> [creditPerChild |-> 2200, refundableAmount |-> 1700])

QUALIFIED_DIVIDEND_BRACKETS ==
  (2023 :> << <<89250, 0>>, <<553850, 1500>>, <<MAX_INCOME, 2000>> >>
   @@ 2024 :> << <<94050, 0>>, <<583750, 1500>>, <<MAX_INCOME, 2000>> >>
   @@ 2025 :> << <<96700, 0>>, <<600050, 1500>>, <<MAX_INCOME, 2000>> >>
   @@ 2026 :> << <<98900, 0>>, <<613700, 1500>>, <<MAX_INCOME, 2000>> >>)

(***************************************************************************)
(* The tables of the standalone functions of src/unnamed/part_000, which   *)
(* set their own MAX_INCOME.                                               *)
(***************************************************************************)
STANDALONE_MAX_INCOME == 10000000

STANDALONE_NY_ROWS ==
  << <<17150, 400>>, <<23600, 450>>, <<27900, 525>>, <<161550, 550>>,
     <<323200, 600>>, <<2155350, 685>>, <<5000000, 965>>, <<25000000, 1030>>,
     <<STANDALONE_MAX_INCOME, 1090>> >>

STANDALONE_RATES ==
  [federal |->
     (2023 :> << <<22000, 1000>>, <<89450, 1200>>, <<190750, 2200>>, <<364200, 2400>>,
                 <<462500, 3200>>, <<693750, 3500>>, <<STANDALONE_MAX_INCOME, 3700>> >>
      @@ 2024 :> << <<23200, 1000>>, <<94300, 1200>>, <<201050, 2200>>, <<383900, 2400>>,
                    <<487450, 3200>>, <<731200, 3500>>, <<STANDALONE_MAX_INCOME, 3700>> >>
      @@ 2025 :> << <<23850, 1000>>, <<96950, 1200>>, <<206700, 2200>>, <<394600, 2400>>,
                    <<501050, 3200>>, <<751600, 3500>>, <<STANDALONE_MAX_INCOME, 3700>> >>
      @@ 2026 :> << <<24500, 1000>>, <<99550, 1200>>, <<212200, 2200>>, <<405050, 2400>>,
                    <<514400, 3200>>, <<771550, 3500>>, <<STANDALONE_MAX_INCOME, 3700>> >>),
   ny |-> (2025 :> STANDALONE_NY_ROWS @@ 2026 :> STANDALONE_NY_ROWS)]

(***************************************************************************)
(* The state of one call.                                                  *)
(***************************************************************************)
VARIABLES
  pc,        \* the position in the code of the entry point ("idle": no call yet)
  fn,        \* the entry point called
  arg1,      \* income | amount | netInvestmentIncome | numberOfChildren
  arg2,      \* totalTaxableIncome | modifiedAGI (Zero when the entry point has none)
  year,      \* the year argument
  brackets,  \* the table looked up (<<>> before the lookup)
  idx,       \* the bracket the loop is at
  totalTax,  \* the accumulator of _calculateProgressiveTax, and what it returns
  previousBracketThreshold,  \* also lastIncomeBracket of the standalone functions
  applicableRate,            \* of _calculatePreferentialTax
  partials,  \* the array the standalone functions' map() builds
  outcome,   \* "none" | "returned" | "threw"
  result,    \* the value returned
  err,       \* the error thrown: [kind, field]
  log        \* the steps executed so far, in order

vars ==
  << pc, fn, arg1, arg2, year, brackets, idx, totalTax, previousBracketThreshold,
     applicableRate, partials, outcome, result, err, log >>

NoError == [kind |-> "none", field |-> "none"]

(***************************************************************************)
(* The arguments the model calls the entry points with.                    *)
(***************************************************************************)
Thresholds(table) == {table[i][1] : i \in DOMAIN table}

TableThresholds(tables) ==
  UNION {UNION {Thresholds(tables[j][y]) : y \in DOMAIN tables[j]} : j \in DOMAIN tables}

Near(S) == {s + d : s \in S, d \in (0 - Delta) .. Delta}

\* every threshold of every income tax table, zero and the documented examples,
\* each with its neighbours; this holds negative amounts and amounts above MAX_INCOME
IncomeValues ==
  Near({0, 100000, CA_MENTAL_HEALTH_TAX.THRESHOLD}
       \cup TableThresholds(TAX_BRACKETS) \cup TableThresholds(STANDALONE_RATES))
  \cup {MAX_INCOME + 50000000}

\* NaN, +Infinity and a string that is no numeral
BadAmounts == {NaN, PosInf, Str}

IncomeInputs == {Num(v) : v \in IncomeValues} \cup BadAmounts

YearInputs ==
  {Num(y) : y \in SUPPORTED_YEARS \cup {2012, 2013, 2022, 2027, 2030}}
  \cup {NaN, PosInf, NumStr(2024)}

IncomeTaxEntryPoints == {"getFederalIncomeTax", "getNYIncomeTax", "getCAIncomeTax"}

\* the jurisdiction each entry point passes to _calculateIncomeTax
JurisdictionOf(f) ==
  CASE f = "getFederalIncomeTax" -> "federal"
    [] f = "getNYIncomeTax" -> "ny"
    [] f = "getCAIncomeTax" -> "ca"

(***************************************************************************)
(* The validators.                                                         *)
(***************************************************************************)
\* _validateNonNegativeNumber(value, fieldName) returns without throwing
_validateNonNegativeNumber(value) ==
  ~(~TypeofNumber(value) \/ JsLt(value, Zero))

\* a variant that compares after converting to a number, as == would
SupportedYearsIncludes_Coercing(y) ==
  ToNumber(y).k = "num" /\ ToNumber(y).lo = 0 /\ ToNumber(y).hi \in SUPPORTED_YEARS

\* TAX_CONFIG.SUPPORTED_YEARS.includes(year)
SupportedYearsIncludes(y) == y.k = "num" /\ y.lo = 0 /\ y.hi \in SUPPORTED_YEARS

\* a variant that ignores minYear and always asks for a supported year
_validateYear_MembershipOnly(y, minYear) == SupportedYearsIncludes(y)

\* _validateYear(year, minYear) returns without throwing; minYear = 0 stands for
\* the default null
_validateYear(y, minYear) ==
  IF minYear # 0
  THEN ~(~TypeofNumber(y) \/ JsLt(y, Num(minYear)))
  ELSE SupportedYearsIncludes(y)

\* the error _validateTaxInputs(income, year, jurisdiction) throws, NoError if none
_validateTaxInputs(income, y, jurisdiction) ==
  IF ~_validateNonNegativeNumber(income)
  THEN [kind |-> "InvalidAmount", field |-> "Income"]
  ELSE IF ~_validateYear(y, 0)
  THEN [kind |-> "UnsupportedYear", field |-> "Year"]
  ELSE IF jurisdiction \notin JURISDICTIONS
  THEN [kind |-> "UnknownJurisdiction", field |-> "Jurisdiction"]
  ELSE NoError

(***************************************************************************)
(* _calculateProgressiveTax.                                               *)
(***************************************************************************)
\* a variant that leaves out Math.min: the income is not capped at the threshold
TaxableIncomeInBracket_NoCap(income, bracketThreshold, previous) ==
  MathMax(Zero, JsSub(income, previous))

\* Math.max(0, Math.min(income, bracketThreshold) - previousBracketThreshold)
TaxableIncomeInBracket(income, bracketThreshold, previous) ==
  MathMax(Zero, JsSub(MathMin(income, Num(bracketThreshold)), previous))

\* a variant that writes = for +=
AccumulateTax_Overwrite(total, taxableIncomeInBracket, taxRate) ==
  JsMulRate(taxableIncomeInBracket, taxRate)

\* totalTax += taxableIncomeInBracket * taxRate
AccumulateTax(total, taxableIncomeInBracket, taxRate) ==
  JsAdd(total, JsMulRate(taxableIncomeInBracket, taxRate))

\* a variant that starts the next bracket one unit above the threshold
NextPreviousThreshold_PlusOne(bracketThreshold) == Num(bracketThreshold + 1)

\* previousBracketThreshold = bracketThreshold
NextPreviousThreshold(bracketThreshold) == Num(bracketThreshold)

\* a variant with the comparison the wrong way round
ProgressiveBreak_Inverted(income, bracketThreshold) == JsLe(Num(bracketThreshold), income)

\* if (income <= bracketThreshold) break
ProgressiveBreak(income, bracketThreshold) == JsLe(income, Num(bracketThreshold))

\* one iteration of the loop on the loop state [totalTax, previous]
ProgressiveIteration(st, bracket, income) ==
  [totalTax |-> AccumulateTax(st.totalTax,
                  TaxableIncomeInBracket(income, bracket[1], st.previous), bracket[2]),
   previous |-> NextPreviousThreshold(bracket[1])]

RECURSIVE ProgressiveLoop(_, _, _, _)
ProgressiveLoop(taxBrackets, income, i, st) ==
  IF i > Len(taxBrackets) THEN st
  ELSE WithValue(ProgressiveIteration(st, taxBrackets[i], income),
                 LAMBDA st2 :
                   IF ProgressiveBreak(income, taxBrackets[i][1]) THEN st2
                   ELSE ProgressiveLoop(taxBrackets, income, i + 1, st2))

\* the whole function, as the composition of its iterations
_calculateProgressiveTax(taxBrackets, income) ==
  ProgressiveLoop(taxBrackets, income, 1, [totalTax |-> Zero, previous |-> Zero]).totalTax

\* a variant that leaves out Math.max(0, ...)
_calculateCAMentalHealthTax_NoMax(income) ==
  JsMulRate(JsSub(income, Num(CA_MENTAL_HEALTH_TAX.THRESHOLD)), CA_MENTAL_HEALTH_TAX.RATE)

\* _calculateCAMentalHealthTax(income)
_calculateCAMentalHealthTax(income) ==
  JsMulRate(MathMax(Zero, JsSub(income, Num(CA_MENTAL_HEALTH_TAX.THRESHOLD))),
            CA_MENTAL_HEALTH_TAX.RATE)

(***************************************************************************)
(* _calculatePreferentialTax.                                              *)
(***************************************************************************)
PreferentialEntryPoints == {"getQualifiedDividendTax", "getLongTermCapitalGainsTax"}

\* the assetType each entry point passes
AssetTypeOf(f) ==
  IF f = "getQualifiedDividendTax" THEN "Qualified dividends"
  ELSE "Long-term capital gains"

\* the error the validations of _calculatePreferentialTax throw, NoError if none
PreferentialValidation(amount, totalTaxableIncome, y, assetType) ==
  IF ~_validateNonNegativeNumber(amount)
  THEN [kind |-> "InvalidAmount", field |-> assetType]
  ELSE IF ~_validateNonNegativeNumber(totalTaxableIncome)
  THEN [kind |-> "InvalidAmount", field |-> "Total taxable income"]
  ELSE IF ~_validateYear(y, 0)
  THEN [kind |-> "UnsupportedYear", field |-> "Year"]
  ELSE NoError

\* applicableRate = rate
SelectRateIteration(bracket) == bracket[2]

\* a variant that breaks on < instead of <=
SelectRateBreak_Strict(totalTaxableIncome, threshold) ==
  JsLt(totalTaxableIncome, Num(threshold))

\* if (totalTaxableIncome <= threshold) break
SelectRateBreak(totalTaxableIncome, threshold) == JsLe(totalTaxableIncome, Num(threshold))

RECURSIVE SelectRateLoop(_, _, _, _)
SelectRateLoop(table, totalTaxableIncome, i, rate) ==
  IF i > Len(table) THEN rate
  ELSE IF SelectRateBreak(totalTaxableIncome, table[i][1])
       THEN SelectRateIteration(table[i])
       ELSE SelectRateLoop(table, totalTaxableIncome, i + 1, SelectRateIteration(table[i]))

\* return amount * applicableRate
ApplyRate(amount, rate) == JsMulRate(amount, rate)

\* the computation of _calculatePreferentialTax, after its validations
_calculatePreferentialTax(amount, totalTaxableIncome, table) ==
  ApplyRate(amount, SelectRateLoop(table, totalTaxableIncome, 1, 0))

(***************************************************************************)
(* getNetInvestmentIncomeTax.                                              *)
(***************************************************************************)
\* the error the validations throw, NoError if none
NiitValidation(netInvestmentIncome, modifiedAGI, y) ==
  IF ~_validateNonNegativeNumber(netInvestmentIncome)
  THEN [kind |-> "InvalidAmount", field |-> "Net investment income"]
  ELSE IF ~_validateNonNegativeNumber(modifiedAGI)
  THEN [kind |-> "InvalidAmount", field |-> "Modified AGI"]
  ELSE IF ~_validateYear(y, 2013)
  THEN [kind |-> "UnsupportedYear", field |-> "Year"]
  ELSE NoError

\* a variant that taxes the whole excess, without Math.min
NetInvestmentIncomeTaxAmount_NoMin(netInvestmentIncome, modifiedAGI) ==
  JsMulRate(MathMax(Zero, JsSub(modifiedAGI, Num(NIIT.THRESHOLD))), NIIT.RATE)

\* excessIncome, taxableAmount and the returned taxableAmount * RATE
NetInvestmentIncomeTaxAmount(netInvestmentIncome, modifiedAGI) ==
  LET excessIncome == MathMax(Zero, JsSub(modifiedAGI, Num(NIIT.THRESHOLD)))
      taxableAmount == MathMin(netInvestmentIncome, excessIncome)
  IN  JsMulRate(taxableAmount, NIIT.RATE)

(***************************************************************************)
(* getChildTaxCredit.                                                      *)
(***************************************************************************)
\* a variant that leaves out Number.isInteger
ChildTaxCreditValidation_NoIntegerCheck(numberOfChildren, modifiedAGI, y) ==
  IF ~TypeofNumber(numberOfChildren) \/ JsLt(numberOfChildren, Zero)
  THEN [kind |-> "InvalidCount", field |-> "Number of children"]
  ELSE IF ~_validateNonNegativeNumber(modifiedAGI)
  THEN [kind |-> "InvalidAmount", field |-> "Modified AGI"]
  ELSE IF ~_validateYear(y, 0)
  THEN [kind |-> "UnsupportedYear", field |-> "Year"]
  ELSE NoError

\* the error the validations throw, NoError if none
ChildTaxCreditValidation(numberOfChildren, modifiedAGI, y) ==
  IF ~TypeofNumber(numberOfChildren) \/ JsLt(numberOfChildren, Zero)
     \/ ~IsInteger(numberOfChildren)
  THEN [kind |-> "InvalidCount", field |-> "Number of children"]
  ELSE IF ~_validateNonNegativeNumber(modifiedAGI)
  THEN [kind |-> "InvalidAmount", field |-> "Modified AGI"]
  ELSE IF ~_validateYear(y, 0)
  THEN [kind |-> "UnsupportedYear", field |-> "Year"]
  ELSE NoError

\* Math.floor(a / d) for a whole amount a and a whole divisor d > 0
JsFloorDiv(a, d) ==
  LET x == ToNumber(a)
  IN  IF x.k = "num" THEN Num(x.hi \div d) ELSE x

\* a variant that rounds the increments down
PhaseOutIncrements_Floor(excessIncome) ==
  JsFloorDiv(excessIncome, CHILD_TAX_CREDIT.PHASE_OUT_INCREMENT)

\* Math.ceil(excessIncome / PHASE_OUT_INCREMENT)
PhaseOutIncrements(excessIncome) ==
  JsCeilDiv(excessIncome, CHILD_TAX_CREDIT.PHASE_OUT_INCREMENT)

\* a variant that leaves out Math.max(0, ...)
FinalCredit_NoFloor(baseCredit, reduction) == JsSub(baseCredit, reduction)

\* Math.max(0, baseCredit - reduction)
FinalCredit(baseCredit, reduction) == MathMax(Zero, JsSub(baseCredit, reduction))

\* a variant without the short circuit for no children and without Math.max(0, ...)
ChildTaxCreditAmount_NoZeroCase(numberOfChildren, modifiedAGI, creditData) ==
  LET baseCredit == Num(creditData.creditPerChild * numberOfChildren.hi)
  IN  IF JsLe(modifiedAGI, Num(CHILD_TAX_CREDIT.PHASE_OUT_THRESHOLD)) THEN baseCredit
      ELSE LET excessIncome == JsSub(modifiedAGI, Num(CHILD_TAX_CREDIT.PHASE_OUT_THRESHOLD))
               increments == PhaseOutIncrements(excessIncome)
               reduction == JsMulInt(increments, CHILD_TAX_CREDIT.PHASE_OUT_RATE)
           IN  JsSub(baseCredit, reduction)

\* the computation of getChildTaxCredit, after its validations and its lookup
ChildTaxCreditAmount(numberOfChildren, modifiedAGI, creditData) ==
  LET baseCredit == Num(creditData.creditPerChild * numberOfChildren.hi)
  IN  IF numberOfChildren.hi = 0 \/ baseCredit.hi = 0 THEN Zero
      ELSE IF JsLe(modifiedAGI, Num(CHILD_TAX_CREDIT.PHASE_OUT_THRESHOLD)) THEN baseCredit
      ELSE LET excessIncome == JsSub(modifiedAGI, Num(CHILD_TAX_CREDIT.PHASE_OUT_THRESHOLD))
               increments == PhaseOutIncrements(excessIncome)
               reduction == JsMulInt(increments, CHILD_TAX_CREDIT.PHASE_OUT_RATE)
           IN  FinalCredit(baseCredit, reduction)

(***************************************************************************)
(* The standalone getFederalIncomeTax and getNYIncomeTax of part_000.      *)
(***************************************************************************)
StandaloneEntryPoints == {"standalone.getFederalIncomeTax", "standalone.getNYIncomeTax"}

StandaloneJurisdictionOf(f) ==
  IF f = "standalone.getFederalIncomeTax" THEN "federal" ELSE "ny"

\* rates[year] is defined: the property key is the year converted to a string
StandaloneHasYear(rates, y) ==
  y.k \in {"num", "numstr"} /\ y.lo = 0 /\ y.hi \in DOMAIN rates

\* partialTax = Math.max(0, Math.min(income, row[0]) - lastIncomeBracket) * row[1]
StandalonePartialTax(income, row, lastIncomeBracket) ==
  JsMulRate(MathMax(Zero, JsSub(MathMin(income, Num(row[1])), lastIncomeBracket)), row[2])

\* lastIncomeBracket = row[0] + 1
StandaloneNextLast(row) == Num(row[1] + 1)

\* .reduce((a, v) => a + v) on a non-empty array
RECURSIVE ReduceSum(_)
ReduceSum(a) ==
  IF Len(a) = 1 THEN a[1]
  ELSE WithValue(ReduceSum(SubSeq(a, 1, Len(a) - 1)), LAMBDA acc : JsAdd(acc, a[Len(a)]))

RECURSIVE StandaloneMap(_, _, _, _)
StandaloneMap(rows, income, i, last) ==
  IF i > Len(rows) THEN <<>>
  ELSE WithValue(StandaloneMap(rows, income, i + 1, StandaloneNextLast(rows[i])),
                 LAMBDA rest : <<StandalonePartialTax(income, rows[i], last)>> \o rest)

\* the whole standalone function on a year that has a table
StandaloneIncomeTax(rows, income) == ReduceSum(StandaloneMap(rows, income, 1, Zero))

(***************************************************************************)
(* More of the arguments the model calls the entry points with.            *)
(***************************************************************************)
QDThresholds ==
  UNION {Thresholds(QUALIFIED_DIVIDEND_BRACKETS[y]) : y \in DOMAIN QUALIFIED_DIVIDEND_BRACKETS}

PrefAmountValues == {0 - 1, 0, 1, 10000, 50000, 100000, 500000}

\* totals at the thresholds, and totals that put the ordinary income (the total
\* less the amount) exactly at a threshold
PrefTotalValues ==
  Near({0, 200000} \cup QDThresholds)
  \cup {t + a : t \in QDThresholds \ {MAX_INCOME}, a \in {a \in PrefAmountValues : a > 0}}

PrefAmountInputs == {Num(v) : v \in PrefAmountValues} \cup BadAmounts
PrefTotalInputs == {Num(v) : v \in PrefTotalValues} \cup BadAmounts

NiiInputs == {Num(v) : v \in {0 - 1, 0, 1, 30000, 50000, 100000}} \cup BadAmounts

NiitMagiInputs ==
  {Num(v) : v \in Near({0, 200000, NIIT.THRESHOLD, 280000, 300000, 400000})}
  \cup BadAmounts

\* whole counts, one and a half, and values that are no count
ChildrenInputs ==
  {Num(n) : n \in (0 - 1) .. MaxChildren}
  \cup {[k |-> "num", hi |-> 1, lo |-> 5000], NaN, PosInf, Str}

CtcMagiInputs ==
  {Num(v) : v \in Near({0, 300000, CHILD_TAX_CREDIT.PHASE_OUT_THRESHOLD, 401000,
                         440000, 444000, 450000, 532000, 600000})}
  \cup BadAmounts

(***************************************************************************)
(* The state machine.                                                      *)
(***************************************************************************)
Init ==
  /\ pc = "idle"
  /\ fn = "none"
  /\ arg1 = Zero
  /\ arg2 = Zero
  /\ year = Zero
  /\ brackets = <<>>
  /\ idx = 1
  /\ totalTax = Zero
  /\ previousBracketThreshold = Zero
  /\ applicableRate = 0
  /\ partials = <<>>
  /\ outcome = "none"
  /\ result = Zero
  /\ err = NoError
  /\ log = <<>>

\* throw new Error(...)
Throw(e, step) ==
  /\ pc' = "done"
  /\ outcome' = "threw"
  /\ err' = e
  /\ log' = Append(log, step)

\* return v
Return(v, step) ==
  /\ pc' = "done"
  /\ outcome' = "returned"
  /\ result' = v
  /\ log' = Append(log, step)

\* getFederalIncomeTax(income, year), getNYIncomeTax, getCAIncomeTax are called
CallIncomeTax ==
  /\ pc = "idle"
  /\ \E f \in IncomeTaxEntryPoints, income \in IncomeInputs, y \in YearInputs :
       /\ fn' = f
       /\ arg1' = income
       /\ year' = y
  /\ pc' = "validateTaxInputs"
  /\ UNCHANGED << arg2, brackets, idx, totalTax, previousBracketThreshold,
                  applicableRate, partials, outcome, result, err, log >>

\* _calculateIncomeTax: _validateTaxInputs(income, year, jurisdiction)
ValidateTaxInputs ==
  /\ pc = "validateTaxInputs"
  /\ LET e == _validateTaxInputs(arg1, year, JurisdictionOf(fn))
     IN  IF e # NoError
         THEN /\ Throw(e, "validate")
              /\ UNCHANGED result
         ELSE /\ pc' = "lookupBrackets"
              /\ log' = Append(log, "validate")
              /\ UNCHANGED << outcome, result, err >>
  /\ UNCHANGED << fn, arg1, arg2, year, brackets, idx, totalTax,
                  previousBracketThreshold, applicableRate, partials >>

\* _calculateIncomeTax: brackets = TAX_BRACKETS[jurisdiction][year]; if (!brackets) throw
LookupBrackets ==
  /\ pc = "lookupBrackets"
  /\ LET j == JurisdictionOf(fn)
         found == year.k \in {"num", "numstr"} /\ year.hi \in DOMAIN TAX_BRACKETS[j]
     IN  IF ~found
         THEN /\ Throw([kind |-> "UnsupportedYear", field |-> "brackets"], "lookup")
              /\ UNCHANGED << brackets, result >>
         ELSE /\ brackets' = TAX_BRACKETS[j][year.hi]
              /\ pc' = IF Len(TAX_BRACKETS[j][year.hi]) = 0 THEN "return" ELSE "progressive"
              /\ log' = Append(log, "lookup")
              /\ UNCHANGED << outcome, result, err >>
  /\ UNCHANGED << fn, arg1, arg2, year, idx, totalTax, previousBracketThreshold,
                  applicableRate, partials >>

\* _calculateProgressiveTax: one iteration of the for loop
ProgressiveStep ==
  /\ pc = "progressive"
  /\ idx <= Len(brackets)
  /\ LET st == ProgressiveIteration(
                 [totalTax |-> totalTax, previous |-> previousBracketThreshold],
                 brackets[idx], arg1)
     IN  /\ totalTax' = st.totalTax
         /\ previousBracketThreshold' = st.previous
  /\ idx' = idx + 1
  /\ pc' = IF ProgressiveBreak(arg1, brackets[idx][1]) \/ idx = Len(brackets)
           THEN "return" ELSE "progressive"
  /\ log' = Append(log, "arith")
  /\ UNCHANGED << fn, arg1, arg2, year, brackets, applicableRate, partials,
                  outcome, result, err >>

\* getFederalIncomeTax, getNYIncomeTax: return _calculateIncomeTax(...)
ReturnIncomeTax ==
  /\ pc = "return"
  /\ fn \in {"getFederalIncomeTax", "getNYIncomeTax"}
  /\ Return(totalTax, "return")
  /\ UNCHANGED << fn, arg1, arg2, year, brackets, idx, totalTax,
                  previousBracketThreshold, applicableRate, partials, err >>

\* getCAIncomeTax: return _calculateIncomeTax(...) + _calculateCAMentalHealthTax(income)
ReturnCAIncomeTax ==
  /\ pc = "return"
  /\ fn = "getCAIncomeTax"
  /\ Return(JsAdd(totalTax, _calculateCAMentalHealthTax(arg1)), "arith")
  /\ UNCHANGED << fn, arg1, arg2, year, brackets, idx, totalTax,
                  previousBracketThreshold, applicableRate, partials, err >>

\* getQualifiedDividendTax(qualifiedDividends, totalTaxableIncome, year) or
\* getLongTermCapitalGainsTax(longTermCapitalGains, totalTaxableIncome, year) is called
CallPreferentialTax ==
  /\ pc = "idle"
  /\ \E f \in PreferentialEntryPoints, amount \in PrefAmountInputs,
        total \in PrefTotalInputs, y \in YearInputs :
       /\ fn' = f
       /\ arg1' = amount
       /\ arg2' = total
       /\ year' = y
  /\ pc' = "validatePreferential"
  /\ UNCHANGED << brackets, idx, totalTax, previousBracketThreshold,
                  applicableRate, partials, outcome, result, err, log >>

\* _calculatePreferentialTax: the three validations
ValidatePreferentialTax ==
  /\ pc = "validatePreferential"
  /\ LET e == PreferentialValidation(arg1, arg2, year, AssetTypeOf(fn))
     IN  IF e # NoError
         THEN /\ Throw(e, "validate")
              /\ UNCHANGED result
         ELSE /\ pc' = "lookupPreferential"
              /\ log' = Append(log, "validate")
              /\ UNCHANGED << outcome, result, err >>
  /\ UNCHANGED << fn, arg1, arg2, year, brackets, idx, totalTax,
                  previousBracketThreshold, applicableRate, partials >>

\* _calculatePreferentialTax: brackets = QUALIFIED_DIVIDEND_BRACKETS[year];
\* if (!brackets) throw; applicableRate = 0
LookupPreferentialBrackets ==
  /\ pc = "lookupPreferential"
  /\ LET found == year.k \in {"num", "numstr"}
                  /\ year.hi \in DOMAIN QUALIFIED_DIVIDEND_BRACKETS
     IN  IF ~found
         THEN /\ Throw([kind |-> "UnsupportedYear", field |-> "brackets"], "lookup")
              /\ UNCHANGED << brackets, result >>
         ELSE /\ brackets' = QUALIFIED_DIVIDEND_BRACKETS[year.hi]
              /\ pc' = IF Len(QUALIFIED_DIVIDEND_BRACKETS[year.hi]) = 0
                       THEN "applyRate" ELSE "selectRate"
              /\ log' = Append(log, "lookup")
              /\ UNCHANGED << outcome, result, err >>
  /\ applicableRate' = 0
  /\ UNCHANGED << fn, arg1, arg2, year, idx, totalTax, previousBracketThreshold,
                  partials >>

\* _calculatePreferentialTax: one iteration of the loop that selects the rate
SelectRateStep ==
  /\ pc = "selectRate"
  /\ idx <= Len(brackets)
  /\ applicableRate' = SelectRateIteration(brackets[idx])
  /\ idx' = idx + 1
  /\ pc' = IF SelectRateBreak(arg2, brackets[idx][1]) \/ idx = Len(brackets)
           THEN "applyRate" ELSE "selectRate"
  /\ log' = Append(log, "scan")
  /\ UNCHANGED << fn, arg1, arg2, year, brackets, totalTax, previousBracketThreshold,
                  partials, outcome, result, err >>

\* _calculatePreferentialTax: return amount * applicableRate
ApplyPreferentialRate ==
  /\ pc = "applyRate"
  /\ Return(ApplyRate(arg1, applicableRate), "arith")
  /\ UNCHANGED << fn, arg1, arg2, year, brackets, idx, totalTax,
                  previousBracketThreshold, applicableRate, partials, err >>

\* getNetInvestmentIncomeTax(netInvestmentIncome, modifiedAGI, year) is called
CallNetInvestmentIncomeTax ==
  /\ pc = "idle"
  /\ \E nii \in NiiInputs, magi \in NiitMagiInputs, y \in YearInputs :
       /\ arg1' = nii
       /\ arg2' = magi
       /\ year' = y
  /\ fn' = "getNetInvestmentIncomeTax"
  /\ pc' = "validateNIIT"
  /\ UNCHANGED << brackets, idx, totalTax, previousBracketThreshold,
                  applicableRate, partials, outcome, result, err, log >>

\* getNetInvestmentIncomeTax: the three validations
ValidateNetInvestmentIncomeTax ==
  /\ pc = "validateNIIT"
  /\ LET e == NiitValidation(arg1, arg2, year)
     IN  IF e # NoError
         THEN /\ Throw(e, "validate")
              /\ UNCHANGED result
         ELSE /\ pc' = "computeNIIT"
              /\ log' = Append(log, "validate")
              /\ UNCHANGED << outcome, result, err >>
  /\ UNCHANGED << fn, arg1, arg2, year, brackets, idx, totalTax,
                  previousBracketThreshold, applicableRate, partials >>

\* getNetInvestmentIncomeTax: excessIncome, taxableAmount, return taxableAmount * RATE
ComputeNetInvestmentIncomeTax ==
  /\ pc = "computeNIIT"
  /\ Return(NetInvestmentIncomeTaxAmount(arg1, arg2), "arith")
  /\ UNCHANGED << fn, arg1, arg2, year, brackets, idx, totalTax,
                  previousBracketThreshold, applicableRate, partials, err >>

\* getChildTaxCredit(numberOfChildren, modifiedAGI, year) is called
CallChildTaxCredit ==
  /\ pc = "idle"
  /\ \E n \in ChildrenInputs, magi \in CtcMagiInputs, y \in YearInputs :
       /\ arg1' = n
       /\ arg2' = magi
       /\ year' = y
  /\ fn' = "getChildTaxCredit"
  /\ pc' = "validateCTC"
  /\ UNCHANGED << brackets, idx, totalTax, previousBracketThreshold,
                  applicableRate, partials, outcome, result, err, log >>

\* getChildTaxCredit: the three validations
ValidateChildTaxCredit ==
  /\ pc = "validateCTC"
  /\ LET e == ChildTaxCreditValidation(arg1, arg2, year)
     IN  IF e # NoError
         THEN /\ Throw(e, "validate")
              /\ UNCHANGED result
         ELSE /\ pc' = "lookupCTC"
              /\ log' = Append(log, "validate")
              /\ UNCHANGED << outcome, result, err >>
  /\ UNCHANGED << fn, arg1, arg2, year, brackets, idx, totalTax,
                  previousBracketThreshold, applicableRate, partials >>

\* getChildTaxCredit: creditData = CHILD_TAX_CREDIT_AMOUNTS[year]; if (!creditData) throw
LookupCreditData ==
  /\ pc = "lookupCTC"
  /\ LET found == year.k \in {"num", "numstr"}
                  /\ year.hi \in DOMAIN CHILD_TAX_CREDIT_AMOUNTS
     IN  IF ~found
         THEN /\ Throw([kind |-> "UnsupportedYear", field |-> "creditData"], "lookup")
              /\ UNCHANGED result
         ELSE /\ pc' = "computeCTC"
              /\ log' = Append(log, "lookup")
              /\ UNCHANGED << outcome, result, err >>
  /\ UNCHANGED << fn, arg1, arg2, year, brackets, idx, totalTax,
                  previousBracketThreshold, applicableRate, partials >>

\* getChildTaxCredit: the base credit, the short circuits and the phase-out
ComputeChildTaxCredit ==
  /\ pc = "computeCTC"
  /\ Return(ChildTaxCreditAmount(arg1, arg2, CHILD_TAX_CREDIT_AMOUNTS[year.hi]), "arith")
  /\ UNCHANGED << fn, arg1, arg2, year, brackets, idx, totalTax,
                  previousBracketThreshold, applicableRate, partials, err >>

\* the standalone getFederalIncomeTax(income, year) or getNYIncomeTax(income, year)
\* of part_000 is called
CallStandalone ==
  /\ pc = "idle"
  /\ \E f \in StandaloneEntryPoints, income \in IncomeInputs, y \in YearInputs :
       /\ fn' = f
       /\ arg1' = income
       /\ year' = y
  /\ pc' = "standaloneLookup"
  /\ UNCHANGED << arg2, brackets, idx, totalTax, previousBracketThreshold,
                  applicableRate, partials, outcome, result, err, log >>

\* lastIncomeBracket = 0; rates[year] || array(), where array is not defined
StandaloneLookup ==
  /\ pc = "standaloneLookup"
  /\ LET rates == STANDALONE_RATES[StandaloneJurisdictionOf(fn)]
     IN  IF ~StandaloneHasYear(rates, year)
         THEN /\ Throw([kind |-> "ReferenceError", field |-> "array"], "lookup")
              /\ UNCHANGED << brackets, result >>
         ELSE /\ brackets' = rates[year.hi]
              /\ pc' = "standaloneMap"
              /\ log' = Append(log, "lookup")
              /\ UNCHANGED << outcome, result, err >>
  /\ previousBracketThreshold' = Zero
  /\ UNCHANGED << fn, arg1, arg2, year, idx, totalTax, applicableRate, partials >>

\* one call of the callback of map()
StandaloneMapStep ==
  /\ pc = "standaloneMap"
  /\ idx <= Len(brackets)
  /\ partials' = Append(partials,
                   StandalonePartialTax(arg1, brackets[idx], previousBracketThreshold))
  /\ previousBracketThreshold' = StandaloneNextLast(brackets[idx])
  /\ idx' = idx + 1
  /\ pc' = IF idx = Len(brackets) THEN "standaloneReduce" ELSE "standaloneMap"
  /\ log' = Append(log, "arith")
  /\ UNCHANGED << fn, arg1, arg2, year, brackets, totalTax, applicableRate,
                  outcome, result, err >>

\* .reduce((a, v) => a + v)
StandaloneReduce ==
  /\ pc = "standaloneReduce"
  /\ Return(ReduceSum(partials), "arith")
  /\ UNCHANGED << fn, arg1, arg2, year, brackets, idx, totalTax,
                  previousBracketThreshold, applicableRate, partials, err >>

Next ==
  \/ CallIncomeTax
  \/ ValidateTaxInputs
  \/ LookupBrackets
  \/ ProgressiveStep
  \/ ReturnIncomeTax
  \/ ReturnCAIncomeTax
  \/ CallPreferentialTax
  \/ ValidatePreferentialTax
  \/ LookupPreferentialBrackets
  \/ SelectRateStep
  \/ ApplyPreferentialRate
  \/ CallNetInvestmentIncomeTax
  \/ ValidateNetInvestmentIncomeTax
  \/ ComputeNetInvestmentIncomeTax
  \/ CallChildTaxCredit
  \/ ValidateChildTaxCredit
  \/ LookupCreditData
  \/ ComputeChildTaxCredit
  \/ CallStandalone
  \/ StandaloneLookup
  \/ StandaloneMapStep
  \/ StandaloneReduce

Spec == Init /\ [][Next]_vars

(***************************************************************************)
(* _calculateProgressiveTax called on its own, with a flat table of one    *)
(* bracket [(T, r)].  No table of the library is flat, so the table is an  *)
(* input here.                                                             *)
(***************************************************************************)
FlatThresholds == {1, 1000, 50000, MAX_INCOME}
FlatRates == {0, 525, 1000, 3700, 10000}
FlatTables == {<< <<t, r>> >> : t \in FlatThresholds, r \in FlatRates}
FlatIncomes == {i \in Near({0, 25000} \cup FlatThresholds) : i >= 0} \cup {2 * MAX_INCOME}

\* _calculateProgressiveTax(taxBrackets, income) is entered: totalTax = 0,
\* previousBracketThreshold = 0
FlatInit ==
  /\ pc = "progressive"
  /\ fn = "_calculateProgressiveTax"
  /\ brackets \in FlatTables
  /\ arg1 \in {Num(i) : i \in FlatIncomes}
  /\ arg2 = Zero
  /\ year = Zero
  /\ idx = 1
  /\ totalTax = Zero
  /\ previousBracketThreshold = Zero
  /\ applicableRate = 0
  /\ partials = <<>>
  /\ outcome = "none"
  /\ result = Zero
  /\ err = NoError
  /\ log = <<>>

\* _calculateProgressiveTax: return totalTax
ReturnProgressiveTax ==
  /\ pc = "return"
  /\ fn = "_calculateProgressiveTax"
  /\ Return(totalTax, "return")
  /\ UNCHANGED << fn, arg1, arg2, year, brackets, idx, totalTax,
                  previousBracketThreshold, applicableRate, partials, err >>

FlatNext ==
  \/ ProgressiveStep
  \/ ReturnProgressiveTax

FlatSpec == FlatInit /\ [][FlatNext]_vars

(***************************************************************************)
(* What the properties below speak of.                                     *)
(***************************************************************************)
IntMin(a, b) == IF a < b THEN a ELSE b
IntMax(a, b) == IF a < b THEN b ELSE a

\* a monetary input the specification allows: a non-negative finite number
ValidAmount(v) == v.k = "num" /\ v.hi >= 0

\* a unit count the specification allows: a non-negative integer
ValidCount(v) == v.k = "num" /\ v.lo = 0 /\ v.hi >= 0

\* a year of the supported set
SupportedYear(y) == y.k = "num" /\ y.lo = 0 /\ y.hi \in SUPPORTED_YEARS

Returned == pc = "done" /\ outcome = "returned"
Threw == pc = "done" /\ outcome = "threw"

\* _calculateProgressiveTax has returned to an entry point of Code.js
ProgressiveTaxReturned ==
  /\ fn \in IncomeTaxEntryPoints
  /\ pc = "return" \/ Returned

\* the table of TAX_BRACKETS the entry point in the state is to use
OwnTable == TAX_BRACKETS[JurisdictionOf(fn)][year.hi]

TopThreshold(table) == table[Len(table)][1]
TopRate(table) == table[Len(table)][2]
LowerThreshold(table, k) == IF k = 1 THEN 0 ELSE table[k - 1][1]

\* the sum over the first k brackets of max(0, min(income, t_j) - t_(j-1)) * r_j
RECURSIVE SliceSum(_, _, _)
SliceSum(table, income, k) ==
  IF k = 0 THEN Zero
  ELSE WithValue(SliceSum(table, income, k - 1),
                 LAMBDA sum :
                   JsAdd(sum, JsMulRate(Num(IntMax(0, IntMin(income, table[k][1])
                                                      - LowerThreshold(table, k))),
                                        table[k][2])))

\* the sum over the first k brackets of their full spans (t_j - t_(j-1)) * r_j
RECURSIVE FullSpanSum(_, _)
FullSpanSum(table, k) ==
  IF k = 0 THEN Zero
  ELSE WithValue(FullSpanSum(table, k - 1),
                 LAMBDA sum :
                   JsAdd(sum, JsMulRate(Num(table[k][1] - LowerThreshold(table, k)),
                                        table[k][2])))

(***************************************************************************)
(* C1.  For every table of TAX_BRACKETS and every income from 0 to the     *)
(* table's top threshold, _calculateProgressiveTax returns the sum, over   *)
(* all brackets in ascending order, of                                     *)
(* max(0, min(income, threshold_k) - threshold_(k-1)) * rate_k, with       *)
(* threshold_0 = 0; getFederalIncomeTax(100000, 2023) is                   *)
(* 22000*0.10 + (89450-22000)*0.12 + (100000-89450)*0.22 = 12615.          *)
(***************************************************************************)
C1_ProgressiveTaxIsSumOfSlices ==
  /\ ( /\ ProgressiveTaxReturned
       /\ ValidAmount(arg1)
       /\ arg1.hi <= TopThreshold(brackets) )
     => /\ brackets = OwnTable
        /\ totalTax = SliceSum(brackets, arg1.hi, Len(brackets))
  /\ ( /\ Returned
       /\ fn = "getFederalIncomeTax"
       /\ arg1 = Num(100000)
       /\ year = Num(2023) )
     => result = Num(2200 + 8094 + 2321)

C1_Witness ==
  /\ Returned
  /\ fn = "getFederalIncomeTax"
  /\ arg1 = Num(100000)
  /\ year = Num(2023)
  /\ idx = 4
  /\ result = Num(12615)

(***************************************************************************)
(* C2.  The preferential-rate tax uses the stacking policy: with           *)
(* ordinaryIncome = totalTaxableIncome - amount, the result is the sum     *)
(* over the brackets of rate_k * min(remaining amount,                     *)
(* max(0, threshold_k - max(ordinaryIncome, threshold_(k-1)))).            *)
(***************************************************************************)
\* the stacking sum from bracket k on, with `remaining` of the amount left
RECURSIVE StackingSum(_, _, _, _)
StackingSum(table, ordinaryIncome, remaining, k) ==
  IF k > Len(table) THEN Zero
  ELSE LET portion == IntMin(remaining,
                        IntMax(0, table[k][1]
                                  - IntMax(ordinaryIncome, LowerThreshold(table, k))))
       IN  WithValue(StackingSum(table, ordinaryIncome, remaining - portion, k + 1),
                     LAMBDA rest : JsAdd(JsMulRate(Num(portion), table[k][2]), rest))

C2_StackingPolicy ==
  ( /\ Returned
    /\ fn \in PreferentialEntryPoints
    /\ ValidAmount(arg1)
    /\ ValidAmount(arg2)
    /\ arg1.hi <= arg2.hi
    /\ arg2.hi <= MAX_INCOME )
  => result = StackingSum(brackets, arg2.hi - arg1.hi, arg1.hi, 1)

(***************************************************************************)
(* C3.  For every bracket table and all incomes 0 <= i1 < i2, incomes      *)
(* above the top threshold included,                                       *)
(* _calculateProgressiveTax(table, i1) <= _calculateProgressiveTax(table,  *)
(* i2).                                                                    *)
(***************************************************************************)
\* _calculateProgressiveTax on every table of TAX_BRACKETS and every income drawn
ProgressiveTaxOf ==
  [j \in DOMAIN TAX_BRACKETS |->
     [y \in DOMAIN TAX_BRACKETS[j] |->
        [i \in IncomeValues |-> _calculateProgressiveTax(TAX_BRACKETS[j][y], Num(i))]]]

C3_ProgressiveTaxMonotone ==
  ( /\ ProgressiveTaxReturned
    /\ ValidAmount(arg1) )
  => \A i2 \in IncomeValues :
       i2 > arg1.hi => JsLe(totalTax, ProgressiveTaxOf[JurisdictionOf(fn)][year.hi][i2])

\* an income with a larger one above it on either side of the top threshold
C3_Witness ==
  /\ ProgressiveTaxReturned
  /\ arg1 = Num(MAX_INCOME)
  /\ LtNum(Zero, totalTax)
  /\ MAX_INCOME + 1 \in IncomeValues
  /\ JsLe(totalTax, ProgressiveTaxOf[JurisdictionOf(fn)][year.hi][MAX_INCOME + 1])

(***************************************************************************)
(* C4.  As claimed: for income above TAX_CONFIG.MAX_INCOME the part of     *)
(* the income above the top threshold is still taxed at the top rate,      *)
(* tax(income) = tax(MAX_INCOME) + (income - MAX_INCOME) * topRate.        *)
(***************************************************************************)
C4_TopRateUncapped ==
  ( /\ ProgressiveTaxReturned
    /\ ValidAmount(arg1)
    /\ arg1.hi > MAX_INCOME )
  => totalTax = JsAdd(_calculateProgressiveTax(brackets, Num(MAX_INCOME)),
                      JsMulRate(Num(arg1.hi - MAX_INCOME), TopRate(brackets)))

(***************************************************************************)
(* C4, as amended.  For income at or beyond the top (sentinel) threshold   *)
(* of a bracket table every bracket is visited and contributes its full    *)
(* span, and the part of the income above the top threshold is not taxed:  *)
(* for income > MAX_INCOME, tax(income) = tax(MAX_INCOME).                 *)
(***************************************************************************)
C4_TopThresholdIsCap ==
  ( /\ ProgressiveTaxReturned
    /\ ValidAmount(arg1)
    /\ arg1.hi >= TopThreshold(brackets) )
  => /\ idx = Len(brackets) + 1
     /\ totalTax = FullSpanSum(brackets, Len(brackets))
     /\ totalTax = _calculateProgressiveTax(brackets, Num(MAX_INCOME))

C4_Witness ==
  /\ ProgressiveTaxReturned
  /\ ValidAmount(arg1)
  /\ arg1.hi > MAX_INCOME
  /\ TopThreshold(brackets) = MAX_INCOME
  /\ totalTax = FullSpanSum(brackets, Len(brackets))

(***************************************************************************)
(* C5.  getChildTaxCredit(n, magi, year), for valid inputs with n > 0, is  *)
(* creditPerChild(year) * n when magi <= 400000, and otherwise             *)
(* max(0, creditPerChild(year) * n - k * 50), where k is the number of     *)
(* 1000 increments in magi - 400000, a partial increment counting as a     *)
(* full one; getChildTaxCredit(3, 450000, 2025) = 4100.                    *)
(***************************************************************************)
\* the whole increments of 1000 in excess, plus one for what is left over
IncrementsRoundedUp(excess) ==
  (excess \div 1000) + (IF excess % 1000 > 0 THEN 1 ELSE 0)

C5_ChildTaxCreditFormula ==
  /\ ( /\ Returned
       /\ fn = "getChildTaxCredit"
       /\ ValidCount(arg1)
       /\ arg1.hi > 0
       /\ ValidAmount(arg2)
       /\ SupportedYear(year) )
     => LET base == CHILD_TAX_CREDIT_AMOUNTS[year.hi].creditPerChild * arg1.hi
        IN  result = IF arg2.hi <= 400000 THEN Num(base)
                     ELSE Num(IntMax(0, base - IncrementsRoundedUp(arg2.hi - 400000) * 50))
  /\ ( /\ Returned
       /\ fn = "getChildTaxCredit"
       /\ arg1 = Num(3)
       /\ arg2 = Num(450000)
       /\ year = Num(2025) )
     => result = Num(4100)

\* a partial increment: 1 over the threshold costs a full 50
C5_Witness ==
  /\ Returned
  /\ fn = "getChildTaxCredit"
  /\ arg1 = Num(3)
  /\ arg2 = Num(400001)
  /\ year = Num(2025)
  /\ result = Num(6550)

(***************************************************************************)
(* C6.  For every fixed child count and supported year, getChildTaxCredit  *)
(* is non-increasing in modifiedAGI, and its result is never negative.     *)
(***************************************************************************)
CtcMagiValues == {v.hi : v \in {w \in CtcMagiInputs : ValidAmount(w)}}

C6_ChildTaxCreditNonIncreasing ==
  ( /\ Returned
    /\ fn = "getChildTaxCredit"
    /\ ValidCount(arg1)
    /\ ValidAmount(arg2)
    /\ SupportedYear(year) )
  => /\ JsLe(Zero, result)
     /\ \A m2 \in CtcMagiValues :
          arg2.hi <= m2
          => JsLe(ChildTaxCreditAmount(arg1, Num(m2), CHILD_TAX_CREDIT_AMOUNTS[year.hi]),
                  result)

\* a credit in the phase-out range with a smaller credit at a larger income
C6_Witness ==
  /\ Returned
  /\ fn = "getChildTaxCredit"
  /\ arg1 = Num(3)
  /\ arg2 = Num(450000)
  /\ SupportedYear(year)
  /\ LtNum(Zero, result)
  /\ \E m2 \in CtcMagiValues :
       /\ arg2.hi < m2
       /\ LtNum(ChildTaxCreditAmount(arg1, Num(m2), CHILD_TAX_CREDIT_AMOUNTS[year.hi]),
                result)

(***************************************************************************)
(* C7.  getNetInvestmentIncomeTax(nii, magi, year), for valid inputs, is   *)
(* 0.038 * min(nii, max(0, magi - 250000)): (30000, 400000) gives 1140,    *)
(* (100000, 300000) gives 1900, and magi <= 250000 gives 0.                *)
(***************************************************************************)
C7_NetInvestmentIncomeTaxFormula ==
  ( /\ Returned
    /\ fn = "getNetInvestmentIncomeTax"
    /\ ValidAmount(arg1)
    /\ ValidAmount(arg2) )
  => /\ result = JsMulRate(Num(IntMin(arg1.hi, IntMax(0, arg2.hi - 250000))), 380)
     /\ (arg1 = Num(30000) /\ arg2 = Num(400000)) => result = Num(1140)
     /\ (arg1 = Num(100000) /\ arg2 = Num(300000)) => result = Num(1900)
     /\ arg2.hi <= 250000 => result = Zero

C7_Witness ==
  /\ Returned
  /\ fn = "getNetInvestmentIncomeTax"
  /\ arg1 = Num(100000)
  /\ arg2 = Num(300000)
  /\ result = Num(1900)

(***************************************************************************)
(* C8.  getCAIncomeTax(income, year) is the CA bracket tax plus            *)
(* 0.01 * max(0, income - 1000000), and the add-on is applied to CA only:  *)
(* getFederalIncomeTax and getNYIncomeTax return the progressive bracket   *)
(* tax of their own table, for every income and supported year.            *)
(***************************************************************************)
C8_SurtaxOnCAOnly ==
  ( /\ Returned
    /\ fn \in IncomeTaxEntryPoints
    /\ ValidAmount(arg1)
    /\ SupportedYear(year) )
  => LET bracketTax == _calculateProgressiveTax(OwnTable, arg1)
     IN  IF fn = "getCAIncomeTax"
         THEN result = JsAdd(bracketTax,
                             JsMulRate(Num(IntMax(0, arg1.hi - 1000000)), 100))
         ELSE result = bracketTax

\* a CA income the add-on applies to
C8_Witness ==
  /\ Returned
  /\ fn = "getCAIncomeTax"
  /\ arg1 = Num(1000001)
  /\ SupportedYear(year)
  /\ result = JsAdd(totalTax, [k |-> "num", hi |-> 0, lo |-> 100])

(***************************************************************************)
(* C9.  Every public entry point, given a monetary input that is           *)
(* negative, non-numeric or not finite, raises an InvalidAmount error      *)
(* naming the offending field and never returns a number.  Stated for the  *)
(* calls whose other arguments are valid.                                  *)
(***************************************************************************)
\* the monetary arguments of the call in the state
MonetaryArguments ==
  CASE fn \in IncomeTaxEntryPoints \cup StandaloneEntryPoints -> {arg1}
    [] fn \in PreferentialEntryPoints \cup {"getNetInvestmentIncomeTax"} -> {arg1, arg2}
    [] fn = "getChildTaxCredit" -> {arg2}
    [] OTHER -> {}

\* the year is one the entry point is specified to accept
ValidYearArgument ==
  CASE fn = "getNetInvestmentIncomeTax" -> year.k = "num" /\ year.lo = 0 /\ year.hi >= 2013
    [] fn \in StandaloneEntryPoints ->
         /\ SupportedYear(year)
         /\ year.hi \in DOMAIN STANDALONE_RATES[StandaloneJurisdictionOf(fn)]
    [] OTHER -> SupportedYear(year)

ValidCountArgument == fn = "getChildTaxCredit" => ValidCount(arg1)

InvalidMonetaryArgument == \E v \in MonetaryArguments : ~ValidAmount(v)

\* the field names the code gives the monetary arguments
MonetaryFields ==
  {"Income", "Qualified dividends", "Long-term capital gains", "Total taxable income",
   "Net investment income", "Modified AGI"}

C9_InvalidAmountRejected ==
  ( /\ pc = "done"
    /\ InvalidMonetaryArgument
    /\ ValidYearArgument
    /\ ValidCountArgument )
  => /\ outcome = "threw"
     /\ err.kind = "InvalidAmount"
     /\ err.field \in MonetaryFields

(***************************************************************************)
(* C10.  In every public entry point all input validation completes        *)
(* before any table lookup or arithmetic: a call with an invalid argument  *)
(* (amount, count, year) ends in an error, and no bracket table, credit    *)
(* table or arithmetic step is executed before the error is raised.        *)
(***************************************************************************)
InvalidArgument ==
  /\ fn # "none"
  /\ InvalidMonetaryArgument \/ ~ValidYearArgument \/ ~ValidCountArgument

C10_ValidationBeforeComputation ==
  InvalidArgument
  => /\ \A i \in DOMAIN log : log[i] = "validate"
     /\ pc = "done" => outcome = "threw"

(***************************************************************************)
(* C11.  Every table-based entry point (getFederalIncomeTax,               *)
(* getNYIncomeTax, getCAIncomeTax, getQualifiedDividendTax,                *)
(* getLongTermCapitalGainsTax, getChildTaxCredit), called with valid       *)
(* amounts (and, for getChildTaxCredit, a valid count) and a year that is  *)
(* not exactly one of 2023, 2024, 2025, 2026, throws an UnsupportedYear    *)
(* error and returns no amount.                                            *)
(***************************************************************************)
TableBasedEntryPoints ==
  IncomeTaxEntryPoints \cup PreferentialEntryPoints \cup {"getChildTaxCredit"}

C11_UnsupportedYearRejected ==
  ( /\ pc = "done"
    /\ fn \in TableBasedEntryPoints
    /\ \A v \in MonetaryArguments : ValidAmount(v)
    /\ ValidCountArgument
    /\ ~SupportedYear(year) )
  => /\ outcome = "threw"
     /\ err = [kind |-> "UnsupportedYear", field |-> "Year"]
     /\ result = Zero

\* the year is the string "2024", not the number
C11_Witness ==
  /\ Threw
  /\ fn = "getChildTaxCredit"
  /\ arg1 = Num(2)
  /\ arg2 = Num(300000)
  /\ year = NumStr(2024)
  /\ err.kind = "UnsupportedYear"

(***************************************************************************)
(* C12.  getNetInvestmentIncomeTax checks its year against a floor, not    *)
(* against the supported set: with valid amounts it returns a result for   *)
(* every year >= 2013 (2013 and 2030 included) and throws an               *)
(* UnsupportedYear error for every year < 2013; the amount returned does   *)
(* not depend on the year.                                                 *)
(***************************************************************************)
C12_MinimumYearFloor ==
  ( /\ pc = "done"
    /\ fn = "getNetInvestmentIncomeTax"
    /\ ValidAmount(arg1)
    /\ ValidAmount(arg2)
    /\ year.k = "num" )
  => IF year.hi >= 2013
     THEN /\ outcome = "returned"
          /\ result = NetInvestmentIncomeTaxAmount(arg1, arg2)
     ELSE /\ outcome = "threw"
          /\ err.kind = "UnsupportedYear"

C12_Witness ==
  /\ Returned
  /\ fn = "getNetInvestmentIncomeTax"
  /\ arg1 = Num(30000)
  /\ arg2 = Num(400000)
  /\ year = Num(2030)
  /\ result = Num(1140)

(***************************************************************************)
(* C13.  getChildTaxCredit throws an InvalidCount error for every count    *)
(* that is negative, not an integer or not a number (a kind distinct from  *)
(* the InvalidAmount of a bad modifiedAGI, and raised before it), and      *)
(* accepts every non-negative integer count.                               *)
(***************************************************************************)
C13_InvalidCountRejected ==
  ( /\ pc = "done"
    /\ fn = "getChildTaxCredit" )
  => IF ~ValidCount(arg1)
     THEN /\ outcome = "threw"
          /\ err.kind = "InvalidCount"
     ELSE /\ err.kind # "InvalidCount"
          /\ (ValidAmount(arg2) /\ SupportedYear(year)) => outcome = "returned"

\* one child and a half, together with a modifiedAGI that is invalid too
C13_Witness ==
  /\ Threw
  /\ fn = "getChildTaxCredit"
  /\ arg1 = [k |-> "num", hi |-> 1, lo |-> 5000]
  /\ arg2 = Num(0 - 1)
  /\ err.kind = "InvalidCount"

(***************************************************************************)
(* C14.  Every amount a public entry point returns is rounded to two       *)
(* decimal places (a whole number of cents), once, on the final composed   *)
(* result; rounding a returned amount again leaves it unchanged.  Stated   *)
(* for the calls whose monetary arguments are valid.                       *)
(***************************************************************************)
\* v rounded to the nearest cent, halves up (v is held in ten-thousandths)
RoundToCents(v) ==
  IF v.k = "num" THEN Norm(v.hi, ((v.lo + 50) \div 100) * 100) ELSE v

C14_RoundedToCents ==
  ( /\ Returned
    /\ \A v \in MonetaryArguments : ValidAmount(v) )
  => /\ result.k = "num"
     /\ RoundToCents(result) = result

(***************************************************************************)
(* C15.  Continuity at the thresholds: for every table of TAX_BRACKETS and *)
(* every threshold t_k below the top one, the progressive tax has no jump  *)
(* at t_k: for every eps > 0 with t_k + eps still in the next bracket,     *)
(* tax(t_k + eps) - tax(t_k) = eps * rate_(k+1), so that no unit of income *)
(* at the boundary is taxed twice or left untaxed.  eps ranges over        *)
(* 1 .. Delta.                                                             *)
(***************************************************************************)
C15_ContinuousAtThresholds ==
  ( /\ ProgressiveTaxReturned
    /\ ValidAmount(arg1) )
  => \A k \in 1 .. (Len(brackets) - 1), eps \in 1 .. Delta :
       ( /\ arg1.hi = brackets[k][1]
         /\ arg1.hi + eps <= brackets[k + 1][1] )
       => JsSub(ProgressiveTaxOf[JurisdictionOf(fn)][year.hi][arg1.hi + eps], totalTax)
            = JsMulRate(Num(eps), brackets[k + 1][2])

\* the first federal threshold of 2023: 2200 at 22000 and 2200.12 at 22001
C15_Witness ==
  /\ ProgressiveTaxReturned
  /\ fn = "getFederalIncomeTax"
  /\ year = Num(2023)
  /\ arg1 = Num(22000)
  /\ totalTax = Num(2200)
  /\ ProgressiveTaxOf["federal"][2023][22001] = [k |-> "num", hi |-> 2200, lo |-> 1200]

(***************************************************************************)
(* C16.  Every bracket table of the repository (every jurisdiction and     *)
(* year of TAX_BRACKETS, every year of QUALIFIED_DIVIDEND_BRACKETS, and    *)
(* the rate tables inside the standalone getFederalIncomeTax and           *)
(* getNYIncomeTax) is non-empty, has strictly increasing thresholds that   *)
(* end in the MAX_INCOME sentinel, and has every rate in [0,1].  Stated of *)
(* the table a call has looked up; the calls look up every table.          *)
(***************************************************************************)
WellFormedTable(table, sentinel) ==
  /\ Len(table) > 0
  /\ \A k \in 1 .. (Len(table) - 1) : table[k][1] < table[k + 1][1]
  /\ table[Len(table)][1] = sentinel
  /\ \A k \in 1 .. Len(table) : table[k][2] >= 0 /\ table[k][2] <= 10000

\* the MAX_INCOME in the scope of the entry point called
SentinelOf(f) == IF f \in StandaloneEntryPoints THEN STANDALONE_MAX_INCOME ELSE MAX_INCOME

\* the entry point in the state has looked its table up
TableLookedUp ==
  /\ fn \in IncomeTaxEntryPoints \cup PreferentialEntryPoints \cup StandaloneEntryPoints
  /\ brackets # <<>>

C16_TablesWellFormed ==
  TableLookedUp => WellFormedTable(brackets, SentinelOf(fn))

(***************************************************************************)
(* C17.  As documented on getQualifiedDividendTax and                      *)
(* getLongTermCapitalGainsTax, the preferential rate is selected by        *)
(* totalTaxableIncome alone (the rate of the first bracket whose threshold *)
(* is >= totalTaxableIncome, the last bracket when there is none) and      *)
(* that one rate is applied to the whole amount, whatever its size:        *)
(* getQualifiedDividendTax(50000, 200000, 2024) = 7500 and                 *)
(* getLongTermCapitalGainsTax(100000, 200000, 2024) = 15000.               *)
(***************************************************************************)
\* the rate of the first bracket of the table that holds the total
SelectedRate(table, total) ==
  LET holding == {k \in 1 .. Len(table) : total <= table[k][1]}
  IN  IF holding = {} THEN table[Len(table)][2]
      ELSE table[CHOOSE k \in holding : \A m \in holding : k <= m][2]

C17_FlatPreferentialRate ==
  ( /\ Returned
    /\ fn \in PreferentialEntryPoints
    /\ ValidAmount(arg1)
    /\ ValidAmount(arg2) )
  => /\ result = JsMulRate(arg1, SelectedRate(brackets, arg2.hi))
     /\ ( /\ fn = "getQualifiedDividendTax"
          /\ arg1 = Num(50000) /\ arg2 = Num(200000) /\ year = Num(2024) )
        => result = Num(7500)
     /\ ( /\ fn = "getLongTermCapitalGainsTax"
          /\ arg1 = Num(100000) /\ arg2 = Num(200000) /\ year = Num(2024) )
        => result = Num(15000)

\* an amount larger than the room left in the 15% bracket, taxed at 15% throughout
C17_Witness ==
  /\ Returned
  /\ fn = "getLongTermCapitalGainsTax"
  /\ arg1 = Num(100000)
  /\ arg2 = Num(200000)
  /\ year = Num(2024)
  /\ result = Num(15000)

(***************************************************************************)
(* C18.  As claimed: for a flat table of one bracket [(T, r)],             *)
(* _calculateProgressiveTax returns exactly income * r for every           *)
(* non-negative income, income greater than T included.                    *)
(***************************************************************************)
FlatTaxReturned ==
  /\ Returned
  /\ fn = "_calculateProgressiveTax"
  /\ Len(brackets) = 1
  /\ ValidAmount(arg1)

C18_FlatTaxIsIncomeTimesRate ==
  FlatTaxReturned => result = JsMulRate(arg1, brackets[1][2])

(***************************************************************************)
(* C18, amended.  For a flat table of one bracket [(T, r)],                *)
(* _calculateProgressiveTax returns min(income, T) * r: exactly            *)
(* income * r for 0 <= income <= T, and T * r for every income above T.    *)
(***************************************************************************)
C18_FlatTaxCappedAtThreshold ==
  FlatTaxReturned
  => /\ result = JsMulRate(Num(IntMin(arg1.hi, brackets[1][1])), brackets[1][2])
     /\ arg1.hi <= brackets[1][1] => result = JsMulRate(arg1, brackets[1][2])

\* an income above T under a rate that is not zero: T * r, less than income * r
C18_Witness ==
  /\ FlatTaxReturned
  /\ brackets = << <<50000, 1000>> >>
  /\ arg1 = Num(50001)
  /\ result = Num(5000)

(***************************************************************************)
(* C19.  getChildTaxCredit(0, magi, year) returns 0 for every valid        *)
(* modifiedAGI and every supported year, whether magi is below, at or      *)
(* above the phase-out threshold of 400000.                                *)
(***************************************************************************)
C19_NoChildrenNoCredit ==
  ( /\ pc = "done"
    /\ fn = "getChildTaxCredit"
    /\ arg1 = Num(0)
    /\ ValidAmount(arg2)
    /\ SupportedYear(year) )
  => /\ outcome = "returned"
     /\ result = Zero

\* no children and a modifiedAGI above the threshold
C19_Witness ==
  /\ Returned
  /\ fn = "getChildTaxCredit"
  /\ arg1 = Num(0)
  /\ arg2 = Num(CHILD_TAX_CREDIT.PHASE_OUT_THRESHOLD + 1)
  /\ year = Num(2025)
  /\ result = Zero

(***************************************************************************)
(* C20.  For every bracket table (every jurisdiction and supported year)   *)
(* the progressive tax on an income of 0 is 0, and getCAIncomeTax(0, year) *)
(* is 0 as well, its surtax term included.                                 *)
(***************************************************************************)
C20_ZeroIncomeZeroTax ==
  ( /\ ProgressiveTaxReturned
    /\ arg1 = Num(0)
    /\ SupportedYear(year) )
  => /\ totalTax = Zero
     /\ totalTax = _calculateProgressiveTax(OwnTable, Num(0))
     /\ pc = "done" => (outcome = "returned" /\ result = Zero)

\* getCAIncomeTax(0, 2024) has returned 0
C20_Witness ==
  /\ Returned
  /\ fn = "getCAIncomeTax"
  /\ arg1 = Num(0)
  /\ year = Num(2024)
  /\ brackets = TAX_BRACKETS["ca"][2024]
  /\ result = Zero

(***************************************************************************)
(* C21.  The early exit of _calculateProgressiveTax does not change the    *)
(* result: for every table of the repository (TAX_BRACKETS,                *)
(* QUALIFIED_DIVIDEND_BRACKETS and the tables of the standalone functions) *)
(* and every non-negative income, the evaluator that stops at the first    *)
(* bracket with income <= threshold returns the same total as one that     *)
(* visits every bracket with the same slice formula: the brackets after    *)
(* the exit contribute slices of 0.                                        *)
(***************************************************************************)
\* the loop of _calculateProgressiveTax without its break
RECURSIVE VisitEveryBracket(_, _, _, _)
VisitEveryBracket(taxBrackets, income, i, st) ==
  IF i > Len(taxBrackets) THEN st
  ELSE WithValue(ProgressiveIteration(st, taxBrackets[i], income),
                 LAMBDA st2 : VisitEveryBracket(taxBrackets, income, i + 1, st2))

TaxVisitingEveryBracket(taxBrackets, income) ==
  VisitEveryBracket(taxBrackets, income, 1, [totalTax |-> Zero, previous |-> Zero]).totalTax

\* the amount the table in the state is entered with
TableIncome == IF fn \in PreferentialEntryPoints THEN arg2 ELSE arg1

C21_EarlyExitEquivalence ==
  /\ ( /\ TableLookedUp
       /\ ValidAmount(TableIncome) )
     => _calculateProgressiveTax(brackets, TableIncome)
          = TaxVisitingEveryBracket(brackets, TableIncome)
  /\ ( /\ ProgressiveTaxReturned
       /\ ValidAmount(arg1) )
     => totalTax = TaxVisitingEveryBracket(brackets, arg1)

\* the loop has left after the first of the nine brackets of NY
C21_Witness ==
  /\ ProgressiveTaxReturned
  /\ fn = "getNYIncomeTax"
  /\ year = Num(2024)
  /\ arg1 = Num(17150)
  /\ idx = 2
  /\ Len(brackets) = 9
  /\ totalTax = Num(686)
  /\ TaxVisitingEveryBracket(brackets, arg1) = Num(686)

(***************************************************************************)
(* C22.  The standalone getFederalIncomeTax and getNYIncomeTax of part_000 *)
(* advance the previous threshold to exactly the threshold of the current  *)
(* bracket after each bracket, so that for every year they have a table    *)
(* for and every income they return the sum of the slices                  *)
(* max(0, min(income, threshold_k) - threshold_(k-1)) * rate_k of the      *)
(* specified evaluator, with no unit of income skipped between two         *)
(* consecutive brackets.                                                   *)
(***************************************************************************)
C22_StandaloneAdvancesToThreshold ==
  ( /\ fn \in StandaloneEntryPoints
    /\ ValidAmount(arg1)
    /\ brackets # <<>> )
  => /\ idx > 1 => previousBracketThreshold = Num(brackets[idx - 1][1])
     /\ Returned => result = SliceSum(brackets, arg1.hi, Len(brackets))

=============================================================================
